---- MODULE Spec2Model ----
(***************************************************************************)
(* Model of src/app.py: the range parser (parse_range), the range matcher  *)
(* (find_match), the cascading dropdown endpoints over the                 *)
(* magnetic_flow_meter and transmitter worksheets, and the admin session.  *)
(*                                                                         *)
(* A Python str is a sequence of one-character strings.  Python values of  *)
(* differing types are records tagged with t.  A float is the exact        *)
(* decimal m / 10^e, kept normalised (no trailing zero in the fraction).   *)
(***************************************************************************)
EXTENDS Integers, Sequences, FiniteSets, TLC

VARIABLES
    range_str, parsed,                     \* parse_range: argument, return value
    rows, value, result,                   \* find_match: arguments, return value
    endpoint, args, records, response,     \* cascading endpoints: route, query args, worksheet, JSON body
    session, request, location, sheet1,    \* admin: session dict, last request, its outcome, rows appended to Sheet1
    add_calls,                             \* admin: number of calls of add_row
    sheet_cache,                           \* _sheet_cache: names of the worksheets opened so far
    pc                                     \* "call" before a modelled function runs, "return" after

vars == <<range_str, parsed, rows, value, result,
          endpoint, args, records, response,
          session, request, location, sheet1, add_calls, sheet_cache, pc>>

parseVars  == <<range_str, parsed>>
matchVars  == <<rows, value, result>>
facetVars  == <<endpoint, args, records, response>>
adminVars  == <<session, request, location, sheet1, add_calls>>

-----------------------------------------------------------------------------
(* Bounds of the model *)

\* longest range string given to parse_range
MaxLen == 5
\* most rows of a worksheet
MaxRows == 2
\* most calls of add_row in one behaviour
MaxAdds == 3

-----------------------------------------------------------------------------
(* Python values *)

None == [t |-> "None"]
Str(s) == [t |-> "str", s |-> s]

Digits == {"0", "1", "2", "3", "4", "5", "6", "7", "8", "9"}
DigitVal == [c \in Digits |->
    CASE c = "0" -> 0 [] c = "1" -> 1 [] c = "2" -> 2 [] c = "3" -> 3 [] c = "4" -> 4
      [] c = "5" -> 5 [] c = "6" -> 6 [] c = "7" -> 7 [] c = "8" -> 8 [] c = "9" -> 9]

\* the characters the pattern [\d.] matches
NumChars == Digits \cup {"."}

RECURSIVE Pow10(_)
Pow10(n) == IF n = 0 THEN 1 ELSE 10 * Pow10(n - 1)

SeqToSet(s) == {s[i] : i \in 1..Len(s)}
CountOf(c, s) == Cardinality({i \in 1..Len(s) : s[i] = c})

\* all sequences over A of length at most n
RECURSIVE SeqsUpTo(_, _)
SeqsUpTo(A, n) ==
    IF n = 0 THEN {<<>>}
    ELSE LET shorter == SeqsUpTo(A, n - 1)
         IN  shorter \cup {Append(s, c) : s \in shorter, c \in A}

-----------------------------------------------------------------------------
(* float(): conversion of a matched token *)

RECURSIVE Normalise(_, _)
Normalise(m, e) ==
    IF e > 0 /\ m % 10 = 0 THEN Normalise(m \div 10, e - 1)
    ELSE [t |-> "float", m |-> m, e |-> e]

\* the digits of tok read as one integer, the decimal point dropped
RECURSIVE Mantissa(_, _)
Mantissa(tok, acc) ==
    IF tok = <<>> THEN acc
    ELSE IF Head(tok) = "." THEN Mantissa(Tail(tok), acc)
    ELSE Mantissa(Tail(tok), 10 * acc + DigitVal[Head(tok)])

\* number of digits after the decimal point
FracLen(tok) ==
    IF "." \in SeqToSet(tok)
    THEN Len(tok) - (CHOOSE i \in 1..Len(tok) : tok[i] = ".")
    ELSE 0

\* float(tok) raises ValueError unless tok has a digit and at most one point
FloatRaises(tok) ==
    \/ CountOf(".", tok) > 1
    \/ SeqToSet(tok) \cap Digits = {}

float(tok) == Normalise(Mantissa(tok, 0), FracLen(tok))

\* a <= b on floats
FloatLE(a, b) == a.m * Pow10(b.e) <= b.m * Pow10(a.e)

-----------------------------------------------------------------------------
(* parse_range *)

\* re.findall(r"[\d.]+", s): the maximal runs of digits and points, left to right
RECURSIVE findall(_, _, _)
findall(s, cur, acc) ==
    IF s = <<>> THEN (IF cur = <<>> THEN acc ELSE Append(acc, cur))
    ELSE IF Head(s) \in NumChars THEN findall(Tail(s), Append(cur, Head(s)), acc)
    ELSE findall(Tail(s), <<>>, IF cur = <<>> THEN acc ELSE Append(acc, cur))

NotParsable == <<None, None>>

\* parse_range returning the two numbers as (smaller, larger)
parse_range_ordered(rs) ==
    IF rs = None \/ rs.s = <<>> THEN NotParsable
    ELSE LET nums == findall(rs.s, <<>>, <<>>)
         IN  IF Len(nums) # 2 THEN NotParsable
             ELSE IF FloatRaises(nums[1]) \/ FloatRaises(nums[2]) THEN NotParsable
             ELSE IF FloatLE(float(nums[1]), float(nums[2]))
                  THEN <<float(nums[1]), float(nums[2])>>
                  ELSE <<float(nums[2]), float(nums[1])>>

\* parse_range without the try/except around float(): the ValueError escapes
ValueError == [t |-> "ValueError"]
parse_range_uncaught(rs) ==
    IF rs = None \/ rs.s = <<>> THEN NotParsable
    ELSE LET nums == findall(rs.s, <<>>, <<>>)
         IN  IF Len(nums) # 2 THEN NotParsable
             ELSE IF FloatRaises(nums[1]) \/ FloatRaises(nums[2]) THEN <<ValueError, ValueError>>
             ELSE <<float(nums[1]), float(nums[2])>>

parse_range(rs) ==
    IF rs = None \/ rs.s = <<>> THEN NotParsable
    ELSE LET nums == findall(rs.s, <<>>, <<>>)
         IN  IF Len(nums) # 2 THEN NotParsable
             ELSE IF FloatRaises(nums[1]) \/ FloatRaises(nums[2]) THEN NotParsable
             ELSE <<float(nums[1]), float(nums[2])>>

-----------------------------------------------------------------------------
(* find_match *)

\* r.get(key, "")
Get(r, key) == IF key \in DOMAIN r THEN r[key] ELSE <<>>

\* find_match that keeps scanning and returns the last containing record
RECURSIVE find_match_last(_, _)
find_match_last(rs, v) ==
    IF rs = <<>> THEN None
    ELSE LET r == rs[Len(rs)]
             p == parse_range(Str(Get(r, "Range")))
         IN  IF p[1] = None THEN find_match_last(SubSeq(rs, 1, Len(rs) - 1), v)
             ELSE IF FloatLE(p[1], v) /\ FloatLE(v, p[2]) THEN r
             ELSE find_match_last(SubSeq(rs, 1, Len(rs) - 1), v)

\* find_match that gives up at the first record whose range does not parse
RECURSIVE find_match_stop(_, _)
find_match_stop(rs, v) ==
    IF rs = <<>> THEN None
    ELSE LET r == Head(rs)
             p == parse_range(Str(Get(r, "Range")))
         IN  IF p[1] = None THEN None
             ELSE IF FloatLE(p[1], v) /\ FloatLE(v, p[2]) THEN r
             ELSE find_match_stop(Tail(rs), v)

RECURSIVE find_match(_, _)
find_match(rs, v) ==
    IF rs = <<>> THEN None
    ELSE LET r == Head(rs)
             p == parse_range(Str(Get(r, "Range")))
         IN  IF p[1] = None THEN find_match(Tail(rs), v)
             ELSE IF FloatLE(p[1], v) /\ FloatLE(v, p[2]) THEN r
             ELSE find_match(Tail(rs), v)

-----------------------------------------------------------------------------
(* Worksheet loading: get_magnetic_rows, get_transmitter_rows *)

\* _sheet_cache after get_sheet(name); opened is FALSE when opening the worksheet raises
get_sheet(name, cache, opened) ==
    IF name \in cache THEN cache
    ELSE IF opened THEN cache \cup {name}
    ELSE cache

Whitespace == {" "}

\* str.strip()
RECURSIVE lstrip(_)
lstrip(s) == IF s # <<>> /\ Head(s) \in Whitespace THEN lstrip(Tail(s)) ELSE s
RECURSIVE rstrip(_)
rstrip(s) ==
    IF s # <<>> /\ s[Len(s)] \in Whitespace THEN rstrip(SubSeq(s, 1, Len(s) - 1)) ELSE s
strip(s) == rstrip(lstrip(s))

\* str(v).strip() if v not in ("", None) else ""
CleanCell(v) == IF v = <<>> THEN <<>> ELSE strip(v)

\* a worksheet is [ok, rows]: ok is FALSE when get_sheet or get_all_records raises
get_magnetic_rows(ws) ==
    IF ~ws.ok THEN <<>>
    ELSE [i \in 1..Len(ws.rows) |->
            [k \in DOMAIN ws.rows[i] |-> CleanCell(ws.rows[i][k])]]

DiaTypoHeader == "Dia seal: Intergral, Dia seal: Remote non Integral"
DiaHeader == "Dia Seal Type"
RangeValueHeader == "Range value"
UnitHeader == "Range in mmwcl or Kg/cm2"

\* the key a header is stored under in cleaned_row
CleanedKey(k) == IF k = DiaTypoHeader THEN DiaHeader ELSE k

get_transmitter_rows(ws) ==
    IF ~ws.ok THEN <<>>
    ELSE [i \in 1..Len(ws.rows) |->
            LET row == ws.rows[i]
            IN  [ck \in {CleanedKey(k) : k \in DOMAIN row} |->
                    CleanCell(row[CHOOSE k \in DOMAIN row : CleanedKey(k) = ck])]]

-----------------------------------------------------------------------------
(* sorted() on str: by code point, lexicographic *)

Ord(c) ==
    CASE c = " " -> 32 [] c = "-" -> 45 [] c = "." -> 46
      [] c \in Digits -> 48 + DigitVal[c]
      [] c = "A" -> 65 [] c = "B" -> 66 [] c = "a" -> 97

RECURSIVE StrLess(_, _)
StrLess(a, b) ==
    IF b = <<>> THEN FALSE
    ELSE IF a = <<>> THEN TRUE
    ELSE IF Head(a) # Head(b) THEN Ord(Head(a)) < Ord(Head(b))
    ELSE StrLess(Tail(a), Tail(b))

\* sorted() with shorter strings first, as numbers would be ordered
RECURSIVE sorted_numeric(_)
sorted_numeric(S) ==
    IF S = {} THEN <<>>
    ELSE LET m == CHOOSE x \in S : \A y \in S \ {x} :
                      Len(x) < Len(y) \/ (Len(x) = Len(y) /\ StrLess(x, y))
         IN  <<m>> \o sorted_numeric(S \ {m})

RECURSIVE sorted(_)
sorted(S) ==
    IF S = {} THEN <<>>
    ELSE LET m == CHOOSE x \in S : \A y \in S \ {x} : StrLess(x, y)
         IN  <<m>> \o sorted(S \ {m})

\* request.args.get(name, "").strip()
Arg(a, name) == strip(Get(a, name))

\* {row.get(col, "") for row in rs if ... and row.get(col, "")}, rs the rows the filter keeps
ColumnValues(rs, col) ==
    {Get(rs[i], col) : i \in {j \in 1..Len(rs) : Get(rs[j], col) # <<>>}}

-----------------------------------------------------------------------------
(* Magnetic flow meter endpoints *)

api_magnetic_sizes(ws, a) ==
    LET rs == get_magnetic_rows(ws)
        Keep(row) == TRUE
    IN  sorted(ColumnValues(SelectSeq(rs, Keep), "Size"))

api_magnetic_types(ws, a) ==
    LET size == Arg(a, "size")
    IN  IF size = <<>> THEN <<>>
        ELSE LET rs == get_magnetic_rows(ws)
                 Keep(row) == Get(row, "Size") = size
             IN  sorted(ColumnValues(SelectSeq(rs, Keep), "Type"))

\* api_magnetic_liners that filters on the size alone
api_magnetic_liners_size_only(ws, a) ==
    LET size == Arg(a, "size")
        type_ == Arg(a, "type")
    IN  IF size = <<>> \/ type_ = <<>> THEN <<>>
        ELSE LET rs == get_magnetic_rows(ws)
                 Keep(row) == Get(row, "Size") = size
             IN  sorted(ColumnValues(SelectSeq(rs, Keep), "Liner Material"))

api_magnetic_liners(ws, a) ==
    LET size == Arg(a, "size")
        type_ == Arg(a, "type")
    IN  IF size = <<>> \/ type_ = <<>> THEN <<>>
        ELSE LET rs == get_magnetic_rows(ws)
                 Keep(row) == Get(row, "Size") = size /\ Get(row, "Type") = type_
             IN  sorted(ColumnValues(SelectSeq(rs, Keep), "Liner Material"))

\* api_magnetic_details without the check that every selection is populated
api_magnetic_details_unguarded(ws, a) ==
    LET size == Arg(a, "size")
        type_ == Arg(a, "type")
        liner == Arg(a, "liner")
        rs == get_magnetic_rows(ws)
        Keep(row) == /\ Get(row, "Size") = size
                     /\ Get(row, "Type") = type_
                     /\ Get(row, "Liner Material") = liner
    IN  SelectSeq(rs, Keep)

\* api_magnetic_details that returns the first matching record only
api_magnetic_details_first(ws, a) ==
    LET size == Arg(a, "size")
        type_ == Arg(a, "type")
        liner == Arg(a, "liner")
    IN  IF size = <<>> \/ type_ = <<>> \/ liner = <<>> THEN <<>>
        ELSE LET rs == get_magnetic_rows(ws)
                 Keep(row) == /\ Get(row, "Size") = size
                              /\ Get(row, "Type") = type_
                              /\ Get(row, "Liner Material") = liner
                 all == SelectSeq(rs, Keep)
             IN  IF all = <<>> THEN <<>> ELSE <<Head(all)>>

api_magnetic_details(ws, a) ==
    LET size == Arg(a, "size")
        type_ == Arg(a, "type")
        liner == Arg(a, "liner")
    IN  IF size = <<>> \/ type_ = <<>> \/ liner = <<>> THEN <<>>
        ELSE LET rs == get_magnetic_rows(ws)
                 Keep(row) == /\ Get(row, "Size") = size
                              /\ Get(row, "Type") = type_
                              /\ Get(row, "Liner Material") = liner
             IN  SelectSeq(rs, Keep)

-----------------------------------------------------------------------------
(* Transmitter endpoints *)

api_transmitter_types(ws, a) ==
    LET rs == get_transmitter_rows(ws)
        Keep(row) == TRUE
    IN  sorted(ColumnValues(SelectSeq(rs, Keep), "Type"))

api_transmitter_dia_seal(ws, a) ==
    LET type_val == Arg(a, "type")
    IN  IF type_val = <<>> THEN <<>>
        ELSE LET rs == get_transmitter_rows(ws)
                 Keep(row) == Get(row, "Type") = type_val
             IN  sorted(ColumnValues(SelectSeq(rs, Keep), DiaHeader))

api_transmitter_range_value(ws, a) ==
    LET type_val == Arg(a, "type")
        dia_seal == Arg(a, "dia_seal")
    IN  IF type_val = <<>> \/ dia_seal = <<>> THEN <<>>
        ELSE LET rs == get_transmitter_rows(ws)
                 Keep(row) == Get(row, "Type") = type_val /\ Get(row, DiaHeader) = dia_seal
             IN  sorted(ColumnValues(SelectSeq(rs, Keep), RangeValueHeader))

\* api_transmitter_range_unit that does not filter on the range value
api_transmitter_range_unit_no_range(ws, a) ==
    LET type_val == Arg(a, "type")
        dia_seal == Arg(a, "dia_seal")
        range_val == Arg(a, "range_value")
    IN  IF type_val = <<>> \/ dia_seal = <<>> \/ range_val = <<>> THEN <<>>
        ELSE LET rs == get_transmitter_rows(ws)
                 Keep(row) == /\ Get(row, "Type") = type_val
                              /\ Get(row, DiaHeader) = dia_seal
             IN  sorted(ColumnValues(SelectSeq(rs, Keep), UnitHeader))

api_transmitter_range_unit(ws, a) ==
    LET type_val == Arg(a, "type")
        dia_seal == Arg(a, "dia_seal")
        range_val == Arg(a, "range_value")
    IN  IF type_val = <<>> \/ dia_seal = <<>> \/ range_val = <<>> THEN <<>>
        ELSE LET rs == get_transmitter_rows(ws)
                 Keep(row) == /\ Get(row, "Type") = type_val
                              /\ Get(row, DiaHeader) = dia_seal
                              /\ Get(row, RangeValueHeader) = range_val
             IN  sorted(ColumnValues(SelectSeq(rs, Keep), UnitHeader))

api_transmitter_details(ws, a) ==
    LET type_val == Arg(a, "type")
        dia_seal == Arg(a, "dia_seal")
        range_val == Arg(a, "range_value")
        unit == Arg(a, "unit")
    IN  IF type_val = <<>> \/ dia_seal = <<>> \/ range_val = <<>> \/ unit = <<>> THEN <<>>
        ELSE LET rs == get_transmitter_rows(ws)
                 Keep(row) == /\ Get(row, "Type") = type_val
                              /\ Get(row, DiaHeader) = dia_seal
                              /\ Get(row, RangeValueHeader) = range_val
                              /\ Get(row, UnitHeader) = unit
             IN  SelectSeq(rs, Keep)

-----------------------------------------------------------------------------
(* Admin routes *)

ADMIN_USER == "admin"
ADMIN_PASS == "admin"

\* data.get(key, "") on the submitted form
FormGet(data, key) == IF key \in DOMAIN data THEN data[key] ELSE ""

\* the row add_row appends; the append is lost when get_sheet or append_row raises
add_row(sheet, data, ok) ==
    IF ok
    THEN Append(sheet, <<FormGet(data, "Instrument"), FormGet(data, "Size"),
                         FormGet(data, "Type"), FormGet(data, "Liner Material"),
                         FormGet(data, "Cost"), FormGet(data, "Supplier"),
                         FormGet(data, "Date")>>)
    ELSE sheet

\* the condition under which admin() sets session["admin"]
CredentialsMatch(form) == form["user"] = ADMIN_USER /\ form["pass"] = ADMIN_PASS

\* request.form["pass"] is read only after the user matched
LoginRaises(form) ==
    \/ "user" \notin DOMAIN form
    \/ form["user"] = ADMIN_USER /\ "pass" \notin DOMAIN form

\* "admin" not in session
NotAdmin(s) == "admin" \notin s

\* admin(): the session and the outcome of GET or POST /admin
admin(s, req) ==
    IF req.method = "POST"
    THEN IF LoginRaises(req.form) THEN [session |-> s, location |-> "400 Bad Request"]
         ELSE IF CredentialsMatch(req.form)
              THEN [session |-> s \cup {"admin"}, location |-> "redirect:/admin/dashboard"]
              ELSE [session |-> s, location |-> "render:admin/login.html"]
    ELSE [session |-> s, location |-> "render:admin/login.html"]

\* dashboard(): the outcome, and whether get_main_rows is called
dashboard(s) ==
    IF NotAdmin(s) THEN [location |-> "redirect:/admin", fetch |-> FALSE]
    ELSE [location |-> "render:admin/dashboard.html", fetch |-> TRUE]

\* add() without the session check
add_unchecked(s, req) ==
    IF req.method = "POST" THEN [location |-> "redirect:/admin/dashboard", add_row |-> TRUE]
    ELSE [location |-> "render:admin/add_row.html", add_row |-> FALSE]

\* add(): the outcome, and whether add_row is called
add(s, req) ==
    IF NotAdmin(s) THEN [location |-> "redirect:/admin", add_row |-> FALSE]
    ELSE IF req.method = "POST" THEN [location |-> "redirect:/admin/dashboard", add_row |-> TRUE]
    ELSE [location |-> "render:admin/add_row.html", add_row |-> FALSE]

\* logout(): session.clear()
logout(s) == [session |-> {}, location |-> "redirect:/"]

-----------------------------------------------------------------------------
(* Values the variables of the functions and routes not under study hold *)

EmptyForm == [k \in {} |-> ""]
NoRequest == [method |-> "GET", path |-> "/", form |-> EmptyForm]
NoWorksheet == [ok |-> TRUE, rows |-> <<>>]

ParseIdle ==
    /\ range_str = None
    /\ parsed = NotParsable
MatchIdle ==
    /\ rows = <<>>
    /\ value = float(<<"0">>)
    /\ result = None
FacetIdle ==
    /\ endpoint = "/"
    /\ args = EmptyForm
    /\ records = NoWorksheet
    /\ response = <<>>
AdminIdle ==
    /\ session = {}
    /\ request = NoRequest
    /\ location = "render:index.html"
    /\ sheet1 = <<>>
    /\ add_calls = 0

-----------------------------------------------------------------------------
(* parse_range applied to every short string *)

ParseAlphabet == {"0", "1", "2", ".", "-"}
RangeStrings == {None} \cup {Str(s) : s \in SeqsUpTo(ParseAlphabet, MaxLen)}

InitParse ==
    /\ range_str \in RangeStrings
    /\ parsed = NotParsable
    /\ sheet_cache = {}
    /\ pc = "call"
    /\ MatchIdle /\ FacetIdle /\ AdminIdle

ParseRange ==
    /\ pc = "call"
    /\ parsed' = parse_range(range_str)
    /\ pc' = "return"
    /\ UNCHANGED <<range_str, matchVars, facetVars, adminVars, sheet_cache>>

NextParse == ParseRange

SpecParse == InitParse /\ [][NextParse]_vars

-----------------------------------------------------------------------------
(* find_match applied to short row sequences *)

\* "Range" cells of Sheet1: parsable, reversed, empty, unparsable
RangeCells == {
    <<"0", "-", "1">>, <<"1", "-", "2">>, <<"2", "-", "0">>,
    <<".", "5", "-", "1", ".", "5">>,
    <<>>, <<"a">>, <<"1">>, <<"0", "-", "1", "-", "2">>, <<"0", ".", ".", "2", "-", "2">> }
CostCells == {<<"1", "0">>, <<"2", "0">>}

\* rows with and without a "Range" key
MainRows ==
    {[Range |-> rc, Cost |-> cc] : rc \in RangeCells, cc \in CostCells}
        \cup {[Cost |-> cc] : cc \in CostCells}

\* float(request.form[...]) of the search routes
QueryValues == {float(t) : t \in {<<"0">>, <<".", "5">>, <<"1">>, <<"1", ".", "5">>, <<"2">>, <<"3">>}}

InitMatch ==
    /\ rows \in SeqsUpTo(MainRows, MaxRows)
    /\ value \in QueryValues
    /\ result = None
    /\ sheet_cache = {}
    /\ pc = "call"
    /\ ParseIdle /\ FacetIdle /\ AdminIdle

FindMatch ==
    /\ pc = "call"
    /\ result' = find_match(rows, value)
    /\ pc' = "return"
    /\ UNCHANGED <<rows, value, parseVars, facetVars, adminVars, sheet_cache>>

NextMatch == FindMatch

SpecMatch == InitMatch /\ [][NextMatch]_vars

-----------------------------------------------------------------------------
(* The cascading endpoints applied to short worksheets *)

MagneticHeaders == {"Size", "Type", "Liner Material"}
TransmitterHeaders(dia) == {"Type", dia, RangeValueHeader, UnitHeader}

\* raw cells as get_all_records returns them: empty, plain, padded
FacetCells == {<<>>, <<"2">>, <<" ", "1", "0">>}

\* the cells each column of the model's worksheets holds
MagneticCells == [h \in MagneticHeaders |-> FacetCells]
TransmitterCells(dia) ==
    [h \in TransmitterHeaders(dia) |->
        IF h \in {"Type", RangeValueHeader} THEN FacetCells \ {<<>>} ELSE FacetCells \ {<<"2">>}]

\* query-string values: whitespace only, padded
ArgValues == {<<" ">>, <<"1", "0", " ">>}

SrChars == <<"1", "2", "3", "4", "5", "6", "7", "8", "9">>

\* the rows of a worksheet; the "Sr" column numbers them
Numbered(fs) == [i \in 1..Len(fs) |-> fs[i] @@ ("Sr" :> <<SrChars[i]>>)]

Worksheets(cells) ==
    LET rowset == {r \in [DOMAIN cells -> FacetCells] : \A h \in DOMAIN cells : r[h] \in cells[h]}
    IN  {[ok |-> TRUE, rows |-> Numbered(fs)] : fs \in SeqsUpTo(rowset, MaxRows)}
            \cup {[ok |-> FALSE, rows |-> <<>>]}

MagneticWorksheets == Worksheets(MagneticCells)
TransmitterWorksheets ==
    Worksheets(TransmitterCells(DiaHeader)) \cup Worksheets(TransmitterCells(DiaTypoHeader))

Params(ep) ==
    CASE ep = "/api/magnetic/sizes" -> {}
      [] ep = "/api/magnetic/types" -> {"size"}
      [] ep = "/api/magnetic/liners" -> {"size", "type"}
      [] ep = "/api/magnetic/details" -> {"size", "type", "liner"}
      [] ep = "/api/transmitter/types" -> {}
      [] ep = "/api/transmitter/dia_seal" -> {"type"}
      [] ep = "/api/transmitter/range_value" -> {"type", "dia_seal"}
      [] ep = "/api/transmitter/range_unit" -> {"type", "dia_seal", "range_value"}
      [] ep = "/api/transmitter/details" -> {"type", "dia_seal", "range_value", "unit"}

MagneticEndpoints ==
    {"/api/magnetic/sizes", "/api/magnetic/types", "/api/magnetic/liners", "/api/magnetic/details"}
TransmitterEndpoints ==
    {"/api/transmitter/types", "/api/transmitter/dia_seal", "/api/transmitter/range_value",
     "/api/transmitter/range_unit", "/api/transmitter/details"}

\* the query strings of an endpoint: each parameter absent or given a value
QueryArgs(ep) == UNION {[present -> ArgValues] : present \in SUBSET Params(ep)}

InitFacet ==
    /\ endpoint \in MagneticEndpoints \cup TransmitterEndpoints
    /\ args \in QueryArgs(endpoint)
    /\ records \in (IF endpoint \in MagneticEndpoints
                    THEN MagneticWorksheets ELSE TransmitterWorksheets)
    /\ response = <<>>
    /\ sheet_cache = {}
    /\ pc = "call"
    /\ ParseIdle /\ MatchIdle /\ AdminIdle

WorksheetName(ep) == IF ep \in MagneticEndpoints THEN "magnetic_flow_meter" ELSE "transmitter"

\* one GET of route ep, answered with body; the same request may be sent again
Serve(ep, body) ==
    /\ endpoint = ep
    /\ \E opened \in BOOLEAN :
        /\ records.ok => opened
        /\ sheet_cache' = get_sheet(WorksheetName(ep), sheet_cache, opened)
    /\ response' = body
    /\ pc' = "return"
    /\ UNCHANGED <<endpoint, args, records, parseVars, matchVars, adminVars>>

MagneticSizes == Serve("/api/magnetic/sizes", api_magnetic_sizes(records, args))
MagneticTypes == Serve("/api/magnetic/types", api_magnetic_types(records, args))
MagneticLiners == Serve("/api/magnetic/liners", api_magnetic_liners(records, args))
MagneticDetails == Serve("/api/magnetic/details", api_magnetic_details(records, args))
TransmitterTypes == Serve("/api/transmitter/types", api_transmitter_types(records, args))
TransmitterDiaSeal == Serve("/api/transmitter/dia_seal", api_transmitter_dia_seal(records, args))
TransmitterRangeValue ==
    Serve("/api/transmitter/range_value", api_transmitter_range_value(records, args))
TransmitterRangeUnit ==
    Serve("/api/transmitter/range_unit", api_transmitter_range_unit(records, args))
TransmitterDetails == Serve("/api/transmitter/details", api_transmitter_details(records, args))

NextFacet ==
    \/ MagneticSizes
    \/ MagneticTypes
    \/ MagneticLiners
    \/ MagneticDetails
    \/ TransmitterTypes
    \/ TransmitterDiaSeal
    \/ TransmitterRangeValue
    \/ TransmitterRangeUnit
    \/ TransmitterDetails

SpecFacet == InitFacet /\ [][NextFacet]_vars

-----------------------------------------------------------------------------
(* The admin routes within one session *)

FormValues == {ADMIN_USER, "guess"}
LoginForms == UNION {[present -> FormValues] : present \in SUBSET {"user", "pass"}}
RowForms == {[Instrument |-> "Vortex Flow Meter", Cost |-> "10"],
             [Instrument |-> "Control Valve", Size |-> "2", Supplier |-> "acme"]}

InitAdmin ==
    /\ AdminIdle
    /\ sheet_cache = {}
    /\ pc = "call"
    /\ ParseIdle /\ MatchIdle /\ FacetIdle

AdminUnchanged == UNCHANGED <<parseVars, matchVars, facetVars, pc>>

\* GET /admin and POST /admin
AdminLogin ==
    \E req \in {[method |-> "GET", path |-> "/admin", form |-> EmptyForm]}
                \cup {[method |-> "POST", path |-> "/admin", form |-> f] : f \in LoginForms} :
        /\ request' = req
        /\ session' = admin(session, req).session
        /\ location' = admin(session, req).location
        /\ UNCHANGED <<sheet1, add_calls, sheet_cache>>
        /\ AdminUnchanged

\* GET /admin/dashboard
Dashboard ==
    /\ request' = [method |-> "GET", path |-> "/admin/dashboard", form |-> EmptyForm]
    /\ location' = dashboard(session).location
    /\ IF dashboard(session).fetch
       THEN \E opened \in BOOLEAN : sheet_cache' = get_sheet("Sheet1", sheet_cache, opened)
       ELSE UNCHANGED sheet_cache
    /\ UNCHANGED <<session, sheet1, add_calls>>
    /\ AdminUnchanged

\* GET /admin/add and POST /admin/add
Add ==
    \E req \in {[method |-> "GET", path |-> "/admin/add", form |-> EmptyForm]}
                \cup {[method |-> "POST", path |-> "/admin/add", form |-> f] : f \in RowForms} :
        /\ request' = req
        /\ location' = add(session, req).location
        /\ IF add(session, req).add_row
           THEN /\ add_calls < MaxAdds
                /\ add_calls' = add_calls + 1
                /\ \E opened \in BOOLEAN, appended \in BOOLEAN :
                    /\ appended => (opened \/ "Sheet1" \in sheet_cache)
                    /\ sheet_cache' = get_sheet("Sheet1", sheet_cache, opened)
                    /\ sheet1' = add_row(sheet1, req.form, appended)
           ELSE UNCHANGED <<add_calls, sheet_cache, sheet1>>
        /\ UNCHANGED session
        /\ AdminUnchanged

\* GET /admin/logout
Logout ==
    /\ request' = [method |-> "GET", path |-> "/admin/logout", form |-> EmptyForm]
    /\ session' = logout(session).session
    /\ location' = logout(session).location
    /\ UNCHANGED <<sheet1, add_calls, sheet_cache>>
    /\ AdminUnchanged

NextAdmin ==
    \/ AdminLogin
    \/ Dashboard
    \/ Add
    \/ Logout

SpecAdmin == InitAdmin /\ [][NextAdmin]_vars

-----------------------------------------------------------------------------
(* Properties of parse_range *)

\* number of leading digits of s
RECURSIVE LeadDigits(_)
LeadDigits(s) == IF s # <<>> /\ Head(s) \in Digits THEN 1 + LeadDigits(Tail(s)) ELSE 0

\* The numeric substrings of s, read left to right: each is the longest run of
\* digits holding at most one decimal point, and holds at least one digit.
RECURSIVE NumericSubstrings(_)
NumericSubstrings(s) ==
    IF s = <<>> THEN <<>>
    ELSE LET n1 == LeadDigits(s)
             rest == SubSeq(s, n1 + 1, Len(s))
             hasPoint == rest # <<>> /\ Head(rest) = "."
             n2 == IF hasPoint THEN LeadDigits(Tail(rest)) ELSE 0
             total == n1 + (IF hasPoint THEN 1 + n2 ELSE 0)
         IN  IF n1 + n2 = 0 THEN NumericSubstrings(Tail(s))
             ELSE <<SubSeq(s, 1, total)>> \o NumericSubstrings(SubSeq(s, total + 1, Len(s)))

\* s[a..b] and s[c..d] are the only maximal runs of digits and points of s
TwoRuns(s, a, b, c, d) ==
    /\ a <= b /\ b + 1 < c /\ c <= d
    /\ \A i \in 1..Len(s) : (s[i] \in NumChars) <=> (i \in a..b \/ i \in c..d)

\* t is one numeric substring, whole
IsNumeral(t) == NumericSubstrings(t) = <<t>>

\* C2 as stated: a string with exactly two numeric substrings parses to the
\* interval of those two substrings converted to numbers, in textual order.
C2_AsStated ==
    (pc = "return" /\ range_str # None) =>
        LET ns == NumericSubstrings(range_str.s)
        IN  Len(ns) = 2 => parsed = <<float(ns[1]), float(ns[2])>>

\* C2 amended: when the maximal runs of digits and points of the string are
\* exactly two and each run is a numeral (a digit, at most one point),
\* parse_range returns the two runs converted to numbers, first run as the
\* lower and second as the upper component, with no reordering.
C2_TwoNumeralRuns ==
    (pc = "return" /\ range_str # None) =>
        LET s == range_str.s
        IN  \A a, b, c, d \in 1..Len(s) :
                (/\ TwoRuns(s, a, b, c, d)
                 /\ IsNumeral(SubSeq(s, a, b))
                 /\ IsNumeral(SubSeq(s, c, d)))
                => parsed = <<float(SubSeq(s, a, b)), float(SubSeq(s, c, d))>>

\* a parsed interval whose first number is the larger one
C2_Witness ==
    /\ pc = "return"
    /\ range_str # None
    /\ Len(NumericSubstrings(range_str.s)) = 2
    /\ parsed # NotParsable
    /\ ~FloatLE(parsed[1], parsed[2])

\* C7: a string whose number of numeric substrings is not two (none, one,
\* three or more, the empty string included) parses to (None, None); no
\* exception leaves parse_range.
C7_NotTwoIsNotParsable ==
    pc = "return" =>
        ((range_str = None \/ Len(NumericSubstrings(range_str.s)) # 2)
            => parsed = NotParsable)

\* three numbers in the string, and one number beside a lone point
C7_Witness ==
    /\ pc = "return"
    /\ range_str # None
    /\ parsed = NotParsable
    /\ \/ Len(NumericSubstrings(range_str.s)) = 3
       \/ Len(NumericSubstrings(range_str.s)) = 1 /\ Len(findall(range_str.s, <<>>, <<>>)) = 2

-----------------------------------------------------------------------------
(* Properties of find_match *)

\* the "Range" of r parses to an interval
Parsable(r) == parse_range(Str(Get(r, "Range"))) # NotParsable

\* the "Range" of r parses to an interval that contains v, ends included
Contains(r, v) ==
    LET p == parse_range(Str(Get(r, "Range")))
    IN  p # NotParsable /\ FloatLE(p[1], v) /\ FloatLE(v, p[2])

\* C1: find_match returns the earliest record whose range contains the value,
\* and None when no record does.
C1_EarliestContaining ==
    pc = "return" =>
        LET M == {i \in 1..Len(rows) : Contains(rows[i], value)}
        IN  IF M = {} THEN result = None
            ELSE result = rows[CHOOSE i \in M : \A j \in M : i <= j]

\* two different records contain the value and the earlier one is returned
C1_Witness ==
    /\ pc = "return"
    /\ \E i, j \in 1..Len(rows) :
        /\ i < j
        /\ Contains(rows[i], value) /\ Contains(rows[j], value)
        /\ rows[i] # rows[j]
        /\ result = rows[i]

\* C8: records whose range is missing, empty or unparsable are skipped: the
\* result is that of find_match on the sequence without them, and is None when
\* the sequence is empty or no range parses.
C8_UnparsableSkipped ==
    pc = "return" =>
        /\ result = find_match(SelectSeq(rows, Parsable), value)
        /\ (\A i \in 1..Len(rows) : ~Parsable(rows[i])) => result = None

\* a record found behind a record whose range does not parse
C8_Witness ==
    /\ pc = "return"
    /\ Len(rows) >= 2
    /\ ~Parsable(rows[1])
    /\ result = rows[2]
    /\ rows[1] # rows[2]

\* every range fails to parse, in a sequence that is not empty
C8_WitnessAllUnparsable ==
    /\ pc = "return"
    /\ rows # <<>>
    /\ \A i \in 1..Len(rows) : ~Parsable(rows[i])
    /\ result = None

-----------------------------------------------------------------------------
(* Properties of the cascading endpoints *)

\* the facet chain of a route: the query parameter and the column of each step
Chain(ep) ==
    CASE ep \in {"/api/magnetic/sizes", "/api/transmitter/types"} -> <<>>
      [] ep = "/api/magnetic/types" -> << <<"size", "Size">> >>
      [] ep = "/api/magnetic/liners" -> << <<"size", "Size">>, <<"type", "Type">> >>
      [] ep = "/api/magnetic/details" ->
            << <<"size", "Size">>, <<"type", "Type">>, <<"liner", "Liner Material">> >>
      [] ep = "/api/transmitter/dia_seal" -> << <<"type", "Type">> >>
      [] ep = "/api/transmitter/range_value" ->
            << <<"type", "Type">>, <<"dia_seal", DiaHeader>> >>
      [] ep = "/api/transmitter/range_unit" ->
            << <<"type", "Type">>, <<"dia_seal", DiaHeader>>, <<"range_value", RangeValueHeader>> >>
      [] ep = "/api/transmitter/details" ->
            << <<"type", "Type">>, <<"dia_seal", DiaHeader>>,
               <<"range_value", RangeValueHeader>>, <<"unit", UnitHeader>> >>

\* the column whose values an available-values route lists
NextFacetOf(ep) ==
    CASE ep = "/api/magnetic/sizes" -> "Size"
      [] ep = "/api/magnetic/types" -> "Type"
      [] ep = "/api/magnetic/liners" -> "Liner Material"
      [] ep = "/api/transmitter/types" -> "Type"
      [] ep = "/api/transmitter/dia_seal" -> DiaHeader
      [] ep = "/api/transmitter/range_value" -> RangeValueHeader
      [] ep = "/api/transmitter/range_unit" -> UnitHeader

DetailsEndpoints == {"/api/magnetic/details", "/api/transmitter/details"}
ValueEndpoints == (MagneticEndpoints \cup TransmitterEndpoints) \ DetailsEndpoints

\* the record sequence the handler of ep works on
Records(ep, ws) ==
    IF ep \in MagneticEndpoints THEN get_magnetic_rows(ws) ELSE get_transmitter_rows(ws)

\* the selection made for a step: the query parameter, trimmed; empty when absent
Selection(a, step) == strip(IF step[1] \in DOMAIN a THEN a[step[1]] ELSE <<>>)

ChainSteps(ep) == {Chain(ep)[k] : k \in 1..Len(Chain(ep))}
AllSelected(ep, a) == \A step \in ChainSteps(ep) : Selection(a, step) # <<>>

\* record r equals every selection of the chain on the selection's column
Survives(r, ep, a) ==
    \A step \in ChainSteps(ep) :
        (IF step[2] \in DOMAIN r THEN r[step[2]] ELSE <<>>) = Selection(a, step)

\* C3: with every prior selection populated, an available-values route answers
\* exactly the distinct non-empty values of its facet among the records that
\* equal every prior selection.
C3_ExactValues ==
    (pc = "return" /\ endpoint \in ValueEndpoints /\ AllSelected(endpoint, args)) =>
        LET rs == Records(endpoint, records)
            col == NextFacetOf(endpoint)
        IN  SeqToSet(response) =
                {rs[i][col] : i \in {j \in 1..Len(rs) : Survives(rs[j], endpoint, args)}} \ {<<>>}

\* a value is answered while a record failing a prior selection holds another
C3_Witness ==
    /\ pc = "return"
    /\ endpoint \in {"/api/magnetic/liners", "/api/transmitter/range_unit"}
    /\ AllSelected(endpoint, args)
    /\ response # <<>>
    /\ LET rs == Records(endpoint, records)
       IN  \E i \in 1..Len(rs) :
            /\ ~Survives(rs[i], endpoint, args)
            /\ rs[i][NextFacetOf(endpoint)] # <<>>
            /\ rs[i][NextFacetOf(endpoint)] \notin SeqToSet(response)

\* C4: when a required selection is empty, missing or only whitespace, the
\* route answers the empty list, whatever the records hold.
C4_EmptySelectionEmptyAnswer ==
    (pc = "return" /\ endpoint # "/" /\ ~AllSelected(endpoint, args)) => response = <<>>

\* one selection is blank while records equal all the populated ones
C4_Witness ==
    /\ pc = "return"
    /\ endpoint \in DetailsEndpoints \cup {"/api/magnetic/liners"}
    /\ \E step \in ChainSteps(endpoint) : Selection(args, step) # <<>>
    /\ \E step \in ChainSteps(endpoint) : step[1] \in DOMAIN args /\ Selection(args, step) = <<>>
    /\ \E step \in ChainSteps(endpoint) : step[1] \notin DOMAIN args
    /\ LET rs == Records(endpoint, records)
       IN  \E i \in 1..Len(rs) :
            \A step \in ChainSteps(endpoint) :
                Selection(args, step) \in {<<>>, rs[i][step[2]]}
    /\ response = <<>>

\* the indices of the records that equal the whole chain
MatchingIndices(ep, ws, a) ==
    {i \in 1..Len(Records(ep, ws)) : Survives(Records(ep, ws)[i], ep, a)}

\* the details answer holds the matching records, all of them, in input order
DetailsAnswerRight ==
    (pc = "return" /\ endpoint \in DetailsEndpoints /\ AllSelected(endpoint, args)) =>
        LET rs == Records(endpoint, records)
            idx == MatchingIndices(endpoint, records, args)
        IN  /\ Len(response) = Cardinality(idx)
            /\ \A k \in 1..Len(response) :
                response[k] = rs[CHOOSE i \in idx : Cardinality({j \in idx : j <= i}) = k]

\* the same request on the same records is answered as before
SameAnswerAgain ==
    (pc = "return" /\ endpoint \in DetailsEndpoints /\ endpoint' = endpoint
        /\ args' = args /\ records' = records) => response' = response

\* C5: given a full chain of populated selections, the details route answers
\* every record equal to all selections, only those, in input order; the
\* request repeated on the same records has the same answer.
C5_AllMatchesInOrder == []DetailsAnswerRight /\ [][SameAnswerAgain]_vars

\* two records match and are answered in sheet order
C5_Witness ==
    /\ pc = "return"
    /\ endpoint \in DetailsEndpoints
    /\ Len(response) = 2
    /\ response[1]["Sr"] = <<"1">>
    /\ response[2]["Sr"] = <<"2">>
    /\ sheet_cache # {}

\* a comes before b in lexicographic order of code points
Precedes(a, b) ==
    \E k \in 1..Len(b) :
        /\ k <= Len(a) + 1
        /\ \A i \in 1..(k - 1) : a[i] = b[i]
        /\ k = Len(a) + 1 \/ Ord(a[k]) < Ord(b[k])

\* C6: the list of an available-values route is strictly ascending in
\* lexicographic order, holds no empty string, and is empty for no records.
C6_SortedDistinctNonEmpty ==
    (pc = "return" /\ endpoint \in ValueEndpoints) =>
        /\ \A i \in 1..(Len(response) - 1) : Precedes(response[i], response[i + 1])
        /\ \A i \in 1..Len(response) : response[i] # <<>>
        /\ Records(endpoint, records) = <<>> => response = <<>>

\* two values answered in the order opposite to the sheet's, beside an empty cell
C6_Witness ==
    /\ pc = "return"
    /\ endpoint = "/api/magnetic/liners"
    /\ Len(response) = 2
    /\ LET rs == Records(endpoint, records)
       IN  /\ Len(rs) = 2
           /\ rs[1]["Liner Material"] = response[2]
           /\ rs[2]["Liner Material"] = response[1]
           /\ rs[1]["Size"] = rs[2]["Size"]

\* the same value in two records is listed once
C6_WitnessRepeated ==
    /\ pc = "return"
    /\ endpoint = "/api/transmitter/dia_seal"
    /\ Len(response) = 1
    /\ LET rs == Records(endpoint, records)
       IN  Len(rs) = 2 /\ rs[1][DiaHeader] = rs[2][DiaHeader] /\ rs[1]["Type"] = rs[2]["Type"]

\* the query args with one more selection
WithArg(a, name, v) == [k \in DOMAIN a \cup {name} |-> IF k = name THEN v ELSE a[k]]

\* C10: every value the last available-values step offers, added to the same
\* prior selections, has a non-empty details answer on the same records.
C10_NoDeadEnd ==
    pc = "return" =>
        /\ endpoint = "/api/magnetic/liners" =>
            \A k \in 1..Len(response) :
                api_magnetic_details(records, WithArg(args, "liner", response[k])) # <<>>
        /\ endpoint = "/api/transmitter/range_unit" =>
            \A k \in 1..Len(response) :
                api_transmitter_details(records, WithArg(args, "unit", response[k])) # <<>>

\* a unit is offered on a sheet that also holds records of another range value
C10_Witness ==
    /\ pc = "return"
    /\ endpoint = "/api/transmitter/range_unit"
    /\ response # <<>>
    /\ LET rs == Records(endpoint, records)
       IN  \E i \in 1..Len(rs) : ~Survives(rs[i], endpoint, args)

-----------------------------------------------------------------------------
(* Properties of the admin routes *)

IsPost(req, path) == req.method = "POST" /\ req.path = path

\* add_row runs, and Sheet1 grows, only on POST /admin/add within a session holding the flag
AddOnlyByAdmin ==
    (add_calls' # add_calls \/ sheet1' # sheet1) =>
        (IsPost(request', "/admin/add") /\ "admin" \in session)

\* the flag appears only on POST /admin with the configured user and password
FlagOnlyByLogin ==
    ("admin" \in session' /\ "admin" \notin session) =>
        /\ IsPost(request', "/admin")
        /\ DOMAIN request'.form = {"user", "pass"}
        /\ request'.form["user"] = ADMIN_USER
        /\ request'.form["pass"] = ADMIN_PASS

\* logout leaves a session without the flag
LogoutClears ==
    request'.path = "/admin/logout" => "admin" \notin session'

\* without the flag /admin/dashboard and /admin/add redirect to /admin and append nothing
NoFlagRedirects ==
    ("admin" \notin session /\ request'.path \in {"/admin/dashboard", "/admin/add"}) =>
        /\ location' = "redirect:/admin"
        /\ sheet1' = sheet1
        /\ add_calls' = add_calls

\* C9: in one session add_row is called only by POST /admin/add while the
\* session holds "admin"; the flag is set only by POST /admin with the
\* configured user and pass; after logout the flag is gone, so nothing is
\* appended and /admin/dashboard and /admin/add redirect to /admin until the
\* next successful login.
C9_AdminGate ==
    [][AddOnlyByAdmin /\ FlagOnlyByLogin /\ LogoutClears /\ NoFlagRedirects]_vars

\* after a login, an append and a logout, POST /admin/add is sent back to /admin
C9_Witness ==
    /\ session = {}
    /\ sheet1 # <<>>
    /\ IsPost(request, "/admin/add")
    /\ location = "redirect:/admin"

====
